---- MODULE Spec2Model ----
(***************************************************************************)
(* Model of the chat relay in src/main.rs: the shared registry             *)
(* (Clients = Arc<Mutex<HashMap<String, Client>>>), the request handlers   *)
(* and the connection task client_connected with its eviction timer and    *)
(* its outbound pump.                                                      *)
(*                                                                         *)
(* Every action is one critical section of the registry lock, i.e. the     *)
(* code between two suspension points (.await) of a task.  The runtime is  *)
(* single-threaded (current_thread), so a critical section is atomic, but  *)
(* a task may be suspended at any lock().await and other tasks then run.   *)
(* Strings are sequences of character codes so that to_lowercase is        *)
(* computed.                                                               *)
(***************************************************************************)
EXTENDS Naturals, Integers, Sequences, FiniteSets, TLC

\* ------------------------------------------------------------------ bounds

\* what a run may create in total: credentials issued, push connections
\* upgraded and messages submitted to channels
MaxAlloc == 4

\* ----------------------------------------------------------------- strings

\* "A", "a", "B" as sequences of character codes
Names == { <<65>>, <<97>>, <<66>> }

\* message bodies (opaque payloads)
Bodies == { "hi", "yo" }

\* String::to_lowercase on the ASCII range
ToLowercase(s) == [i \in DOMAIN s |-> IF s[i] \in 65..90 THEN s[i] + 32 ELSE s[i]]

\* credentials: the uuids are numbered in the order they are generated
Tokens == 1..MaxAlloc

\* a string the server never issued as a credential
NoToken == 0

ConnIds == 1..MaxAlloc

\* Option::None of Client.tx and Client.disconnect_timer
None == 0

VARIABLES
    clients,     \* the HashMap: lowercase name -> Client
    nextToken,   \* the next value of uuid::Uuid::new_v4()
    pending,     \* registrations between their two critical sections
    conns,       \* connection id -> position of its client_connected task
    timers,      \* connection id -> state of the timer task its detach spawned
    chans,       \* connection id -> messages waiting in its unbounded channel
    wire         \* connection id -> frames its outbound pump has sent to the socket

vars == <<clients, nextToken, pending, conns, timers, chans, wire>>

\* NewClient that leaves the token to Default::default(), the empty string
NewClientNoToken(name, token) ==
    [name |-> name, token |-> NoToken, disconnect_timer |-> None, tx |-> None]

\* struct Client, with Default::default() for the two Option fields
NewClient(name, token) ==
    [name |-> name, token |-> token, disconnect_timer |-> None, tx |-> None]

\* struct Message
NewMessage(from, body) == [from |-> from, body |-> body]

\* .iter().find(|(_, client)| client.token == token): the keys that match
FindByToken(cs, token) == { k \in DOMAIN cs : cs[k].token = token }

\* HashMap::insert: adds the key or replaces its value
MapInsert(cs, k, v) == [x \in DOMAIN cs \cup {k} |-> IF x = k THEN v ELSE cs[x]]

\* HashMap::retain(|_, client| client.token != token)
RetainOthers(cs, token) ==
    [k \in { x \in DOMAIN cs : cs[x].token # token } |-> cs[k]]

RECURSIVE SumLen(_, _)
\* the messages submitted so far to the channels in S
SumLen(ch, S) ==
    IF S = {} THEN 0
    ELSE LET c == CHOOSE x \in S : TRUE IN Len(ch[c]) + SumLen(ch, S \ {c})

\* what the run has created so far
Allocated ==
    (nextToken - 1) + Cardinality({c \in ConnIds : conns[c].pc # "free"})
        + SumLen(chans, ConnIds) + SumLen(wire, ConnIds)

\* the credentials a request may carry: the uuids generated so far and a string
\* that is none of them
RequestTokens == {NoToken} \cup 1..(nextToken - 1)

Init ==
    /\ clients = << >>
    /\ nextToken = 1
    /\ pending = {}
    /\ conns = [c \in ConnIds |-> [token |-> NoToken, pc |-> "free", attached |-> FALSE]]
    /\ timers = [c \in ConnIds |-> "none"]
    /\ chans = [c \in ConnIds |-> << >>]
    /\ wire = [c \in ConnIds |-> << >>]

\* ------------------------------------------------------- handle_registration

\* NameTaken comparing the name as sent, without to_lowercase
NameTakenExact(cs, name) == name \in DOMAIN cs

\* the guard of the first critical section: contains_key(&name.to_lowercase())
NameTaken(cs, name) == ToLowercase(name) \in DOMAIN cs

\* the reply of handle_registration: 406 with an error, or 200 with the token
RegistrationResult(cs, name) == IF NameTaken(cs, name) THEN "NameConflict" ELSE "OK"

\* First critical section of handle_registration: the lock is taken, the key
\* is looked up and the guard is dropped at the end of the `if` condition.
\* A taken name is answered at once; otherwise the token is generated and the
\* Client built, and the handler goes on to its second lock().await.
HandleRegistrationCheck(name) ==
    IF RegistrationResult(clients, name) = "NameConflict"
    THEN UNCHANGED vars
    ELSE /\ Allocated < MaxAlloc
         /\ pending' = pending \cup {[name |-> name, token |-> nextToken]}
         /\ nextToken' = nextToken + 1
         /\ UNCHANGED <<clients, conns, timers, chans, wire>>

\* HandleRegistrationInsert that inserts under the name as sent
HandleRegistrationInsertRawKey(r) ==
    /\ r \in pending
    /\ clients' = MapInsert(clients, r.name, NewClient(r.name, r.token))
    /\ pending' = pending \ {r}
    /\ UNCHANGED <<nextToken, conns, timers, chans, wire>>

\* Second critical section of handle_registration: insert, then reply 200.
HandleRegistrationInsert(r) ==
    /\ r \in pending
    /\ clients' = MapInsert(clients, ToLowercase(r.name), NewClient(r.name, r.token))
    /\ pending' = pending \ {r}
    /\ UNCHANGED <<nextToken, conns, timers, chans, wire>>

\* ------------------------------------------------ ws_handler, client_connected

\* ws_handler: any(|(_, client)| client.token == token)
TokenKnown(cs, token) == FindByToken(cs, token) # {}

\* the reply of ws_handler
UpgradeResult(cs, token) == IF TokenKnown(cs, token) THEN "OK" ELSE "UpgradeRejected"

\* ws_handler: the upgrade is authorized or rejected; client_connected runs
\* later, once the upgrade has completed.
WsHandler(token) ==
    IF UpgradeResult(clients, token) = "OK"
    THEN \E c \in ConnIds :
            /\ Allocated < MaxAlloc
            /\ conns[c].pc = "free"
            /\ \A d \in ConnIds : d < c => conns[d].pc # "free"
            /\ conns' = [conns EXCEPT ![c] = [token |-> token, pc |-> "upgraded",
                                              attached |-> FALSE]]
            /\ UNCHANGED <<clients, nextToken, pending, timers, chans, wire>>
    ELSE UNCHANGED vars

\* Abort that leaves the task running
AbortNothing(ts, t) == ts

\* JoinHandle::abort on the current_thread runtime: a task that has not
\* completed is cancelled before it runs again
Abort(ts, t) == IF ts[t] = "pending" THEN [ts EXCEPT ![t] = "aborted"] ELSE ts

\* the client after the attach block: disconnect_timer.take(), tx = Some(..)
Attached(client, c) == [client EXCEPT !.disconnect_timer = None, !.tx = c]

\* client_connected up to the read loop: the channel of connection c is
\* created and, if an entry carries the token, its timer is taken and aborted
\* and the sender is stored; the outbound pump is spawned.
ClientConnectedAttach(c) ==
    /\ conns[c].pc = "upgraded"
    /\ IF TokenKnown(clients, conns[c].token)
       THEN \E k \in FindByToken(clients, conns[c].token) :
               /\ timers' = IF clients[k].disconnect_timer # None
                            THEN Abort(timers, clients[k].disconnect_timer)
                            ELSE timers
               /\ clients' = [clients EXCEPT ![k] = Attached(clients[k], c)]
               /\ conns' = [conns EXCEPT ![c].pc = "open", ![c].attached = TRUE]
       ELSE /\ conns' = [conns EXCEPT ![c].pc = "open"]
            /\ UNCHANGED <<clients, timers>>
    /\ UNCHANGED <<nextToken, pending, chans, wire>>

\* the client after the clean-up block: a new timer handle is stored (the
\* handle stored before is dropped, which detaches its task)
Detached(client, c) == [client EXCEPT !.disconnect_timer = c]

\* client_connected after the read loop: the socket has closed; if an entry
\* carries the token, the timer task of this connection is spawned and stored.
ClientConnectedDetach(c) ==
    /\ conns[c].pc = "open"
    /\ conns' = [conns EXCEPT ![c].pc = "closed"]
    /\ IF TokenKnown(clients, conns[c].token)
       THEN \E k \in FindByToken(clients, conns[c].token) :
               /\ clients' = [clients EXCEPT ![k] = Detached(clients[k], c)]
               /\ timers' = [timers EXCEPT ![c] = "pending"]
       ELSE UNCHANGED <<clients, timers>>
    /\ UNCHANGED <<nextToken, pending, chans, wire>>

\* Evict that removes nothing
EvictNothing(cs, c) == cs

\* the registry after the timer task of connection c has run
Evict(cs, c) == RetainOthers(cs, conns[c].token)

\* The timer task spawned by the detach of connection c: the sleep is over,
\* the lock is taken and every entry with the token is removed.
TimerFire(c) ==
    /\ timers[c] = "pending"
    /\ timers' = [timers EXCEPT ![c] = "fired"]
    /\ clients' = Evict(clients, c)
    /\ UNCHANGED <<nextToken, pending, conns, chans, wire>>

\* --------------------------------------------------------- handle_send_message

\* RouteResult with the two not_found rejections confused: an unknown
\* recipient is reported like an offline one
RouteResultNoLookup(cs, token, to) ==
    IF ToLowercase(to) \notin DOMAIN cs THEN "RecipientOffline"
    ELSE IF ~(FindByToken(cs, token) # {}) THEN "Unauthorized"
    ELSE IF cs[ToLowercase(to)].tx = None THEN "RecipientOffline"
    ELSE "Delivered"

\* the reply of handle_send_message, in the order of its three `?`
RouteResult(cs, token, to) ==
    IF ToLowercase(to) \notin DOMAIN cs THEN "RecipientNotFound"
    ELSE IF ~TokenKnown(cs, token) THEN "Unauthorized"
    ELSE IF cs[ToLowercase(to)].tx = None THEN "RecipientOffline"
    ELSE "Delivered"

\* RouteMessage with the map key, the lowercased name, as from
RouteMessageFromKey(cs, k, body) == NewMessage(k, body)

\* the Message handle_send_message builds: from is the sender's stored name
RouteMessage(cs, k, body) == NewMessage(cs[k].name, body)

\* HandleSendMessage that takes the Sender out of the recipient's entry
\* (tx.take() for tx.as_ref())
HandleSendMessageTakesTx(token, to, body) ==
    IF RouteResult(clients, token, to) = "Delivered"
    THEN \E k \in FindByToken(clients, token) :
           LET tx == clients[ToLowercase(to)].tx IN
           /\ Allocated < MaxAlloc
           /\ chans' = [chans EXCEPT ![tx] = Append(@, RouteMessage(clients, k, body))]
           /\ clients' = [clients EXCEPT ![ToLowercase(to)].tx = None]
           /\ UNCHANGED <<nextToken, pending, conns, timers, wire>>
    ELSE UNCHANGED vars

\* handle_send_message, the whole handler under one lock guard
HandleSendMessage(token, to, body) ==
    IF RouteResult(clients, token, to) = "Delivered"
    THEN \E k \in FindByToken(clients, token) :
           LET tx == clients[ToLowercase(to)].tx IN
           /\ Allocated < MaxAlloc
           /\ chans' = [chans EXCEPT ![tx] = Append(@, RouteMessage(clients, k, body))]
           /\ UNCHANGED <<clients, nextToken, pending, conns, timers, wire>>
    ELSE UNCHANGED vars

\* --------------------------------------------------------------- outbound pump

\* the Sender handles of the channel of connection c that are alive: the
\* client_tx local of client_connected, until the function returns, and the
\* clone stored in a registry entry
SendersAlive(cs, c) ==
    conns[c].pc = "open" \/ \E k \in DOMAIN cs : cs[k].tx = c

\* the task spawned by client_connected is running: it ends when recv()
\* returns None, i.e. the channel is empty and every Sender is dropped
PumpRunning(c) ==
    /\ conns[c].pc \in {"open", "closed"}
    /\ (SendersAlive(clients, c) \/ chans[c] # << >>)

\* Recv that hands out the newest message of the channel
RecvNewest(queue) == queue[Len(queue)]

\* the message recv() hands to the pump
Recv(queue) == Head(queue)

\* the channel after recv()
AfterRecv(queue) == Tail(queue)

\* One turn of the loop of the outbound pump: recv() yields the oldest message
\* of the channel and ws_tx.send writes it to the socket; on a closed socket
\* send fails and the result is ignored.
PumpForward(c) ==
    /\ conns[c].pc \in {"open", "closed"}
    /\ chans[c] # << >>
    /\ chans' = [chans EXCEPT ![c] = AfterRecv(chans[c])]
    /\ wire' = IF conns[c].pc = "open"
               THEN [wire EXCEPT ![c] = Append(@, Recv(chans[c]))]
               ELSE wire
    /\ UNCHANGED <<clients, nextToken, pending, conns, timers>>

\* --------------------------------------------------------------- handle_status

\* the reply of handle_status
StatusResult(cs, token) == IF TokenKnown(cs, token) THEN "OK" ELSE "Unauthorized"

\* handle_status reads the registry and changes nothing
HandleStatus(token) ==
    /\ StatusResult(clients, token) \in {"OK", "Unauthorized"}
    /\ UNCHANGED vars

\* --------------------------------------------------------- handle_list_clients

\* the reply of handle_list_clients: one JSON object per entry, holding the
\* name only (token, timer and tx are skipped); indexed by the entry's key
ListClients(cs) == [k \in DOMAIN cs |-> [name |-> cs[k].name]]

\* handle_list_clients reads the registry and changes nothing
HandleListClients ==
    /\ DOMAIN ListClients(clients) = DOMAIN clients
    /\ UNCHANGED vars

\* ---------------------------------------------------------------- the program

\* a register request arrives
RegistrationStart == \E name \in Names : HandleRegistrationCheck(name)

\* every other step of the handlers, the connection tasks and the timers
OtherSteps ==
    \/ \E r \in pending : HandleRegistrationInsert(r)
    \/ \E token \in RequestTokens : WsHandler(token)
    \/ \E c \in ConnIds : ClientConnectedAttach(c)
    \/ \E c \in ConnIds : ClientConnectedDetach(c)
    \/ \E c \in ConnIds : TimerFire(c)
    \/ \E token \in RequestTokens, to \in Names, body \in Bodies :
          HandleSendMessage(token, to, body)
    \/ \E token \in RequestTokens : HandleStatus(token)
    \/ HandleListClients
    \/ \E c \in ConnIds : PumpForward(c)

Next == RegistrationStart \/ OtherSteps

Spec == Init /\ [][Next]_vars

\* register requests served one after another: a request arrives only when no
\* other registration is between its two critical sections
NextSeq == (pending = {} /\ RegistrationStart) \/ OtherSteps

SeqSpec == Init /\ [][NextSeq]_vars

\* a spawned timer task is scheduled by the runtime: once its sleep is over it
\* runs unless it has been aborted
FairSpec == Spec /\ \A c \in ConnIds : WF_vars(TimerFire(c))

\* the runtime also schedules every outbound pump that has a message to send
PumpFairSpec == FairSpec /\ \A c \in ConnIds : WF_vars(PumpForward(c))

\* ------------------------------------------------------------------ claims

\* the connections attached with the token whose socket is still open
OpenConns(token) ==
    { c \in ConnIds : conns[c].token = token /\ conns[c].pc = "open" /\ conns[c].attached }

\* some connection has been attached with the token
EverAttached(token) == \E c \in ConnIds : conns[c].token = token /\ conns[c].attached

\* the entry under key k is in its grace period: a timer is stored and has
\* not fired, and no connection of its credential is open
Grace(k) ==
    /\ k \in DOMAIN clients
    /\ clients[k].disconnect_timer # None
    /\ timers[clients[k].disconnect_timer] = "pending"
    /\ OpenConns(clients[k].token) = {}

\* C1: registration is atomic per lowercase name: no registration that was
\* answered with a credential has its entry replaced by another registration,
\* i.e. the credential stored under a key never changes while the key stays.
C1_RegistrationAtomic ==
    [][\A k \in DOMAIN clients :
          k \in DOMAIN clients' => clients'[k].token = clients[k].token]_vars

\* C2: a recipient in its grace period is offline for the router: route from
\* a valid sender returns RecipientOffline and submits nothing.
C2_GraceIsOffline ==
    /\ [](\A token \in RequestTokens, to \in Names :
            (TokenKnown(clients, token) /\ Grace(ToLowercase(to)))
                => RouteResult(clients, token, to) = "RecipientOffline")
    /\ [][\A token \in RequestTokens, to \in Names, body \in Bodies :
            (TokenKnown(clients, token) /\ Grace(ToLowercase(to))
                /\ HandleSendMessage(token, to, body)) => chans' = chans]_vars

\* C3: with a registered sender and a recipient that has a live attached
\* connection, route returns Delivered and appends exactly one Message to the
\* recipient's attached channel, from being the sender's display name as
\* registered and body the request body; every other channel is untouched.
C3_Delivered ==
    /\ [](\A token \in RequestTokens, to \in Names :
            (/\ TokenKnown(clients, token)
             /\ ToLowercase(to) \in DOMAIN clients
             /\ OpenConns(clients[ToLowercase(to)].token) # {})
                => RouteResult(clients, token, to) = "Delivered")
    /\ [][\A token \in RequestTokens, to \in Names, body \in Bodies :
            (/\ TokenKnown(clients, token)
             /\ ToLowercase(to) \in DOMAIN clients
             /\ OpenConns(clients[ToLowercase(to)].token) # {}
             /\ HandleSendMessage(token, to, body))
                => LET tx == clients[ToLowercase(to)].tx IN
                   /\ tx \in ConnIds
                   /\ Len(chans'[tx]) = Len(chans[tx]) + 1
                   /\ SubSeq(chans'[tx], 1, Len(chans[tx])) = chans[tx]
                   /\ chans'[tx][Len(chans'[tx])].body = body
                   /\ \E k \in DOMAIN clients :
                         /\ clients[k].token = token
                         /\ chans'[tx][Len(chans'[tx])].from = clients[k].name
                   /\ \A c \in ConnIds \ {tx} : chans'[c] = chans[c]]_vars

\* C3 happens: a client registered as "A" has been delivered to an open
\* connection's channel, and from keeps the capital letter
C3_Witness ==
    \E c \in ConnIds :
        /\ conns[c].pc = "open"
        /\ chans[c] # << >>
        /\ chans[c][1].from = <<65>>
        /\ \E k \in DOMAIN clients : clients[k].tx = c

\* C4: an unknown sender credential is answered Unauthorized whatever the
\* recipient name is, registered or not, and nothing is submitted.
C4_UnauthorizedFirst ==
    /\ [](\A token \in RequestTokens, to \in Names :
            ~TokenKnown(clients, token)
                => RouteResult(clients, token, to) = "Unauthorized")
    /\ [][\A token \in RequestTokens, to \in Names, body \in Bodies :
            (~TokenKnown(clients, token) /\ HandleSendMessage(token, to, body))
                => chans' = chans]_vars

\* C5: with a valid sender, an unregistered recipient name is answered
\* RecipientNotFound and a registered recipient that never had a connection
\* attached is answered RecipientOffline; nothing is submitted in either case.
C5_NotFoundOrOffline ==
    /\ [](\A token \in RequestTokens, to \in Names :
            TokenKnown(clients, token) =>
                /\ (\A k \in DOMAIN clients : ToLowercase(clients[k].name) # ToLowercase(to))
                      => RouteResult(clients, token, to) = "RecipientNotFound"
                /\ (\A k \in DOMAIN clients :
                        (ToLowercase(clients[k].name) = ToLowercase(to)
                            /\ ~EverAttached(clients[k].token))
                        => RouteResult(clients, token, to) = "RecipientOffline"))
    /\ [][\A token \in RequestTokens, to \in Names, body \in Bodies :
            (/\ TokenKnown(clients, token)
             /\ \A k \in DOMAIN clients :
                    ToLowercase(clients[k].name) = ToLowercase(to)
                        => ~EverAttached(clients[k].token)
             /\ HandleSendMessage(token, to, body)) => chans' = chans]_vars

\* C5 happens: a client registered with a capital letter that never connected
\* is a valid sender and an offline recipient, and another name is held by
\* nobody
C5_Witness ==
    \E k \in DOMAIN clients, to \in Names :
        /\ clients[k].name # k
        /\ ~EverAttached(clients[k].token)
        /\ RouteResult(clients, clients[k].token, clients[k].name) = "RecipientOffline"
        /\ ToLowercase(to) \notin DOMAIN clients
        /\ RouteResult(clients, clients[k].token, to) = "RecipientNotFound"

\* C6: register requests served one after another: a name whose lowercase form
\* is the key of an entry is answered NameConflict and the registry stays as
\* it is; any other name succeeds and adds exactly one entry, with that
\* display name, a new credential, no channel and no timer.
C6_SequentialRegistration ==
    /\ [](\A name \in Names :
            RegistrationResult(clients, name) = "NameConflict"
                <=> \E k \in DOMAIN clients :
                        ToLowercase(clients[k].name) = ToLowercase(name))
    /\ [][\A name \in Names :
            (RegistrationResult(clients, name) = "NameConflict"
                /\ HandleRegistrationCheck(name)) => clients' = clients]_vars
    /\ [][\A r \in pending :
            HandleRegistrationInsert(r) =>
                LET k == ToLowercase(r.name) IN
                /\ k \notin DOMAIN clients
                /\ DOMAIN clients' = DOMAIN clients \cup {k}
                /\ clients'[k] = [name |-> r.name, token |-> r.token,
                                  disconnect_timer |-> None, tx |-> None]
                /\ \A j \in DOMAIN clients :
                      clients'[j] = clients[j] /\ clients[j].token # r.token]_vars

\* C6 happens: two registrations have succeeded one after the other, one of
\* them with a capital letter, so a third request can only conflict
C6_Witness ==
    /\ pending = {}
    /\ Cardinality(DOMAIN clients) = 2
    /\ \E k \in DOMAIN clients : clients[k].name # k
    /\ \A name \in Names : RegistrationResult(clients, name) = "NameConflict"

\* connection c is the reconnection of a client that had one connection
\* before: that connection is closed, its timer was aborted, and c is attached
\* and open
SoleReattach(c) ==
    /\ conns[c].pc = "open"
    /\ conns[c].attached
    /\ LET before == { d \in ConnIds \ {c} :
                          conns[d].pc # "free" /\ conns[d].token = conns[c].token }
       IN /\ Cardinality(before) = 1
          /\ \A d \in before :
                d < c /\ conns[d].pc = "closed" /\ timers[d] = "aborted"

\* C7: after a reconnection within the grace period, and for as long as the new
\* connection stays open, the entry is there with its name and credential, no
\* timer is stored and its channel is the new connection's.
C7_ReconnectKeepsEntry ==
    /\ [](\A c \in ConnIds :
            SoleReattach(c) =>
                \E k \in DOMAIN clients :
                    /\ clients[k].token = conns[c].token
                    /\ clients[k].tx = c
                    /\ clients[k].disconnect_timer = None)
    /\ [][\A c \in ConnIds :
            (SoleReattach(c) /\ SoleReattach(c)') =>
                \A k \in DOMAIN clients :
                    clients[k].token = conns[c].token =>
                        /\ k \in DOMAIN clients'
                        /\ clients'[k].token = clients[k].token
                        /\ clients'[k].name = clients[k].name]_vars

\* the timer of connection c is stale: no entry stores its handle (it has been
\* taken by an attach or overwritten by a later detach)
Stale(c) == \A k \in DOMAIN clients : clients[k].disconnect_timer # c

\* C8: a stale timer removes nothing when it fires.
C8_StaleTimerIsNoOp ==
    [][\A c \in ConnIds : (Stale(c) /\ TimerFire(c)) => clients' = clients]_vars

\* the timer tasks that are pending for the token
PendingTimers(token) ==
    { c \in ConnIds : conns[c].token = token /\ timers[c] = "pending" }

\* C9: a detach that follows a detach with no attach in between changes
\* nothing, and no credential ever has two timer tasks pending.
C9_DetachIdempotent ==
    /\ [](\A token \in Tokens : Cardinality(PendingTimers(token)) <= 1)
    /\ [][\A c \in ConnIds :
            (/\ ClientConnectedDetach(c)
             /\ \E k \in DOMAIN clients :
                    clients[k].token = conns[c].token
                        /\ clients[k].disconnect_timer # None)
                => (clients' = clients /\ timers' = timers)]_vars

\* the entry of the token exists and stores a timer: its connection has closed
\* and none has been attached since
Disconnected(token) ==
    \E k \in DOMAIN clients :
        clients[k].token = token /\ clients[k].disconnect_timer # None

\* a connection has been attached with the token since its last detach
Reattached(token) ==
    \E k \in DOMAIN clients :
        clients[k].token = token /\ clients[k].disconnect_timer = None

\* a timer task started for the token has fired
Evicted(token) ==
    \E c \in ConnIds : conns[c].token = token /\ timers[c] = "fired"

\* C10: once a client's connection has closed, its entry is eventually removed
\* unless a connection is attached with its credential; a credential whose
\* timer has fired resolves to nothing from then on (status, upgrade and route
\* as sender are rejected), and at the moment of eviction the name is free:
\* route to it finds nobody and it can be registered again.
C10_EvictionEventually ==
    /\ \A token \in Tokens :
          Disconnected(token) ~> (~TokenKnown(clients, token) \/ Reattached(token))
    /\ [](\A token \in Tokens :
            Evicted(token) =>
                /\ StatusResult(clients, token) = "Unauthorized"
                /\ UpgradeResult(clients, token) = "UpgradeRejected"
                /\ \A to \in Names : RouteResult(clients, token, to)
                        \in {"Unauthorized", "RecipientNotFound"})
    /\ [][\A c \in ConnIds :
            TimerFire(c) =>
                \A k \in DOMAIN clients :
                    clients[k].token = conns[c].token =>
                        \A sender \in RequestTokens :
                            /\ RouteResult(clients', sender, clients[k].name)
                                   = "RecipientNotFound"
                            /\ RegistrationResult(clients', clients[k].name) = "OK"]_vars

\* C10 happens: a timer has fired and the name it freed is registered again
\* under a new credential
C10_Witness ==
    \E token \in Tokens :
        /\ Evicted(token)
        /\ ~TokenKnown(clients, token)
        /\ \E k \in DOMAIN clients : clients[k].token > token

\* C11: an upgrade with a credential no entry carries is rejected and leaves
\* the registry as it is; and the attach step of every authorized connection
\* installs its channel in the entry that carries its credential.
C11_AuthorizedIsAttached ==
    /\ [](\A token \in RequestTokens :
            ~(\E k \in DOMAIN clients : clients[k].token = token)
                => UpgradeResult(clients, token) = "UpgradeRejected")
    /\ [][\A token \in RequestTokens :
            (UpgradeResult(clients, token) = "UpgradeRejected" /\ WsHandler(token))
                => clients' = clients]_vars
    /\ [][\A c \in ConnIds :
            ClientConnectedAttach(c) =>
                \E k \in DOMAIN clients' :
                    clients'[k].token = conns[c].token /\ clients'[k].tx = c]_vars

\* C12: detach clears the channel and stores a timer: a channel is stored only
\* for a client with a live attached connection, and never together with a
\* timer.
C12_OutboundIffLive ==
    /\ [](\A k \in DOMAIN clients :
            /\ clients[k].tx # None => OpenConns(clients[k].token) # {}
            /\ ~(clients[k].tx # None /\ clients[k].disconnect_timer # None))
    /\ [][\A c \in ConnIds :
            ClientConnectedDetach(c) =>
                \A k \in DOMAIN clients :
                    clients[k].token = conns[c].token =>
                        /\ k \in DOMAIN clients'
                        /\ clients'[k].tx = None
                        /\ clients'[k].disconnect_timer = c]_vars

\* the credentials of the registrations between their two critical sections
PendingTokens == { r.token : r \in pending }

\* C13: no two entries carry the same credential; a registration's credential
\* differs from every credential generated before it; and a credential whose
\* entry is gone never resolves again, so it never names a later client.
C13_CredentialsUnique ==
    /\ [](\A k1, k2 \in DOMAIN clients :
            k1 # k2 => clients[k1].token # clients[k2].token)
    /\ [](\A k \in DOMAIN clients :
            clients[k].token \in 1..(nextToken - 1) \ PendingTokens)
    /\ [][\A r \in pending' \ pending :
            /\ r.token \notin PendingTokens
            /\ \A k \in DOMAIN clients : clients[k].token # r.token
            /\ \A c \in ConnIds : conns[c].token # r.token]_vars
    /\ [][\A token \in Tokens :
            (token < nextToken /\ token \notin PendingTokens
                /\ ~TokenKnown(clients, token)) => ~TokenKnown(clients', token)]_vars

\* C13 happens: a client has been evicted and two clients registered after it
\* hold other credentials
C13_Witness ==
    \E token \in Tokens :
        /\ Evicted(token)
        /\ Cardinality(DOMAIN clients) = 2
        /\ \A k \in DOMAIN clients : clients[k].token > token

\* C14: every entry is stored under the lowercase form of its display name and
\* carries a credential, so the client listing holds no two names that are
\* equal up to case.
C14_KeysAndListing ==
    /\ \A k \in DOMAIN clients :
          k = ToLowercase(clients[k].name) /\ clients[k].token # NoToken
    /\ DOMAIN ListClients(clients) = DOMAIN clients
    /\ \A k1, k2 \in DOMAIN ListClients(clients) :
          k1 # k2 => ToLowercase(ListClients(clients)[k1].name)
                        # ToLowercase(ListClients(clients)[k2].name)

\* C14 happens: the listing shows two clients, one with a capital letter,
\* while another registration is between its check and its insert
C14_Witness ==
    /\ Cardinality(DOMAIN ListClients(clients)) = 2
    /\ \E k \in DOMAIN clients : ListClients(clients)[k].name # k
    /\ pending # {}

\* C15: attach is one step: right after it the entry has the connection's
\* channel and no timer, the timer it stored is no longer pending, and an
\* aborted timer never fires.
C15_AttachAtomic ==
    /\ [][\A c \in ConnIds :
            ClientConnectedAttach(c) =>
                \A k \in DOMAIN clients :
                    clients[k].token = conns[c].token =>
                        /\ k \in DOMAIN clients'
                        /\ clients'[k].tx = c
                        /\ clients'[k].disconnect_timer = None
                        /\ clients'[k].name = clients[k].name
                        /\ clients'[k].token = clients[k].token
                        /\ clients[k].disconnect_timer # None
                              => timers'[clients[k].disconnect_timer] # "pending"]_vars
    /\ [][\A c \in ConnIds : timers[c] = "aborted" => timers'[c] = "aborted"]_vars

\* C15 happens: a connection is attached after the timer of an earlier one
\* was aborted
C15_Witness ==
    \E c, d \in ConnIds, k \in DOMAIN clients :
        /\ timers[d] = "aborted"
        /\ conns[d].token = conns[c].token
        /\ conns[c].pc = "open"
        /\ clients[k].tx = c
        /\ clients[k].disconnect_timer = None

\* C16: route leaves the registry, the connections, the timers and the frames
\* already sent as they are; only a Delivered route has an effect, one message
\* appended to the recipient's channel behind what the channel still holds.
C16_RouteFrame ==
    [][\A token \in RequestTokens, to \in Names, body \in Bodies :
            HandleSendMessage(token, to, body) =>
                /\ clients' = clients
                /\ conns' = conns /\ timers' = timers /\ pending' = pending
                /\ wire' = wire
                /\ IF RouteResult(clients, token, to) = "Delivered"
                   THEN LET tx == clients[ToLowercase(to)].tx IN
                        /\ Len(chans'[tx]) = Len(chans[tx]) + 1
                        /\ SubSeq(chans'[tx], 1, Len(chans[tx])) = chans[tx]
                        /\ \A c \in ConnIds \ {tx} : chans'[c] = chans[c]
                   ELSE chans' = chans]_vars

\* C16 happens: two messages were accepted for a channel whose pump has not
\* taken any of them
C16_Witness == \E c \in ConnIds : Len(chans[c]) = 2

\* C17: once a connection has closed, its outbound pump eventually ends, and
\* it does not start again.
C17_PumpTerminates ==
    /\ \A c \in ConnIds : (conns[c].pc = "closed") ~> ~PumpRunning(c)
    /\ [][\A c \in ConnIds :
            (conns[c].pc = "closed" /\ ~PumpRunning(c)) => ~PumpRunning(c)']_vars

\* C17 happens: the pump of a closed connection has ended because a
\* reconnection replaced its Sender in the entry
C17_Witness ==
    \E c \in ConnIds, k \in DOMAIN clients :
        /\ conns[c].pc = "closed"
        /\ conns[c].attached
        /\ ~PumpRunning(c)
        /\ clients[k].token = conns[c].token

\* C18: a timer removes an entry only when no connection attached with the
\* entry's credential is open.
C18_NoEvictionWhileConnected ==
    [][\A c \in ConnIds :
          (TimerFire(c) /\ clients' # clients) => OpenConns(conns[c].token) = {}]_vars

\* C19: an entry disappears, or gives way to another, only in the step of a
\* timer that a disconnect started for the entry's own credential.
C19_RemovedOnlyByOwnTimer ==
    [][\A k \in DOMAIN clients :
          (k \notin DOMAIN clients' \/ clients'[k].token # clients[k].token)
              => \E c \in ConnIds :
                    TimerFire(c) /\ conns[c].token = clients[k].token]_vars

\* what connection c has been given so far: the frames sent, then the messages
\* still in its channel
Stream(w, ch, c) == w[c] \o ch[c]

\* C20: while a connection stays open, a step either leaves its stream as it
\* is (the pump moves the oldest message from the channel to the socket,
\* losing, repeating and reordering nothing) or is a Delivered route that
\* appends one message at its end; frames once sent stay as sent.
C20_PumpOrder ==
    [][\A c \in ConnIds :
          (conns[c].pc = "open" /\ conns'[c].pc = "open") =>
              /\ \/ Stream(wire', chans', c) = Stream(wire, chans, c)
                 \/ /\ wire'[c] = wire[c]
                    /\ Len(chans'[c]) = Len(chans[c]) + 1
                    /\ SubSeq(chans'[c], 1, Len(chans[c])) = chans[c]
              /\ Len(wire'[c]) \in {Len(wire[c]), Len(wire[c]) + 1}
              /\ SubSeq(wire'[c], 1, Len(wire[c])) = wire[c]
              /\ PumpForward(c) => wire'[c] = Append(wire[c], chans[c][1])]_vars

\* C20 happens: two different messages have been sent to an open connection
C20_Witness ==
    \E c \in ConnIds :
        /\ conns[c].pc = "open"
        /\ Len(wire[c]) = 2
        /\ wire[c][1].body # wire[c][2].body

====
